---- MODULE Spec2Model ----
(***************************************************************************)
(* Model of the Sudoku engine of src/sudoku_core.py: SudokuSolver          *)
(* (load_puzzle, solve_with_techniques, get_hint, is_valid, is_solved)     *)
(* and SudokuGenerator (generate_puzzle).                                  *)
(*                                                                         *)
(* A grid is a sequence of rows, each a sequence of integers, as the       *)
(* list-of-lists handed to load_puzzle; the source's 0-based (row, col)    *)
(* is kept and At(g, i, j) reads g[i+1][j+1].                              *)
(***************************************************************************)
EXTENDS Integers, Sequences, FiniteSets, TLC

VARIABLES
    grid,             \* SudokuSolver.grid
    cells,            \* SudokuSolver.cells: (i, j) -> [value, candidates, is_given]
    techniques_used,  \* SudokuSolver.techniques_used
    pc,               \* "idle", or "solving": inside the while loop of solve_with_techniques
    outcome,          \* how the last call on the solver ended
    hint,             \* value returned by get_hint; None after any other call
    puzzle,           \* argument of the last load_puzzle
    gen_pc,           \* SudokuGenerator: "idle", "removing" (in the loop of _remove_numbers), "done"
    difficulty,       \* argument of generate_puzzle
    complete_grid,    \* generate_puzzle: the grid _generate_complete_grid returned
    gen_puzzle,       \* _remove_numbers: the local array puzzle
    positions,        \* _remove_numbers: the shuffled list of positions
    visited,          \* _remove_numbers: how many positions the loop has taken
    removed,          \* _remove_numbers: the counter removed
    result            \* the matrix generate_puzzle returned

solver_vars == <<grid, cells, techniques_used, pc, outcome, hint, puzzle>>
gen_vars == <<gen_pc, difficulty, complete_grid, gen_puzzle, positions, visited, removed, result>>
vars == <<solver_vars, gen_vars>>

\* ------------------------------------------------------------- constants

\* side of the grid: range(9), np.zeros((9, 9))
N == 9
\* side of a box: (row // 3) * 3
BoxN == 3

Idx == 0 .. (N - 1)
Pos == Idx \X Idx
Digits == 1 .. N

\* ---------------------------------------------------------------- bounds

\* longest technique list the solve loop is followed to
MaxTech == 52
\* how many cells of a clearing order are emptied in a loaded puzzle
MaxCleared == 7
\* largest cell value an input matrix holds (9 is the largest legal one)
MaxValue == 10
\* the outcomes of the random shuffles followed: seeds 0 .. MaxSeed
MaxSeed == 1

\* ------------------------------------------------------------------ grid

At(g, i, j) == g[i + 1][j + 1]

SetCell(g, i, j, v) == [g EXCEPT ![i + 1][j + 1] = v]

NumRows(g) == Len(g)

\* np.zeros((9, 9), dtype=int)
ZeroGrid == [r \in 1 .. N |-> [c \in 1 .. N |-> 0]]

\* a 9x9 matrix: the shape every loop over range(9) x range(9) relies on
Shape9(g) == Len(g) = N /\ \A r \in 1 .. N : Len(g[r]) = N

\* grid[row, :]
RowValues(g, row) == {g[row + 1][c] : c \in DOMAIN g[row + 1]}

\* grid[:, col]
ColValues(g, col) == {g[r][col + 1] : r \in DOMAIN g}

BoxStart(k) == (k \div BoxN) * BoxN

\* grid[box_row:box_row+3, box_col:box_col+3]: a slice, clipped to the array
BoxValues(g, box_row, box_col) ==
    {g[r][c] : r \in (box_row + 1 .. box_row + BoxN) \cap DOMAIN g,
               c \in (box_col + 1 .. box_col + BoxN) \cap DOMAIN g[1]}

\* _get_candidates without the box step
GetCandidates_NoBox(g, row, col) ==
    IF At(g, row, col) # 0
    THEN {}
    ELSE (Digits \ RowValues(g, row)) \ ColValues(g, col)

\* SudokuSolver._get_candidates
GetCandidates(g, row, col) ==
    IF At(g, row, col) # 0
    THEN {}
    ELSE ((Digits \ RowValues(g, row)) \ ColValues(g, col))
             \ BoxValues(g, BoxStart(row), BoxStart(col))

\* number of entries of a unit that are non-zero: len(row[row != 0])
CountNonZero(g, unit) == Cardinality({p \in unit : At(g, p[1], p[2]) # 0})

\* the distinct non-zero values of a unit: set(row[row != 0])
NonZeroValues(g, unit) == {At(g, p[1], p[2]) : p \in unit} \ {0}

RowUnit(i) == {<<i, j>> : j \in Idx}
ColUnit(j) == {<<i, j>> : i \in Idx}
BoxUnit(bi, bj) == {<<i, j>> : i \in bi .. bi + BoxN - 1, j \in bj .. bj + BoxN - 1}
BoxStarts == {k \in Idx : k % BoxN = 0}

\* the unit test without the "!= 0" filter: empty cells count as values
UnitOk_CountsZeros(g, unit) ==
    Cardinality({At(g, p[1], p[2]) : p \in unit}) = Cardinality(unit)

\* one unit passes: len(set(nonzero)) == len(nonzero)
UnitOk(g, unit) == Cardinality(NonZeroValues(g, unit)) = CountNonZero(g, unit)

\* SudokuSolver.is_valid
IsValid(g) ==
    /\ \A i \in Idx : UnitOk(g, RowUnit(i))
    /\ \A j \in Idx : UnitOk(g, ColUnit(j))
    /\ \A bi \in BoxStarts : \A bj \in BoxStarts : UnitOk(g, BoxUnit(bi, bj))

\* np.all(self.grid != 0)
AllNonZero(g) == \A p \in Pos : At(g, p[1], p[2]) # 0

\* is_solved without the call of is_valid
IsSolved_NoValidity(g) == AllNonZero(g)

\* SudokuSolver.is_solved
IsSolved(g) == AllNonZero(g) /\ IsValid(g)

\* ------------------------------------------------------------ techniques

\* Technique(name, description, cells_affected, values_removed, explanation):
\* the description and explanation texts are determined by name, cell and value
Technique(name, cell, value) ==
    [name |-> name, cells_affected |-> <<cell>>, value |-> value, values_removed |-> {}]

\* Python's None, as returned by a detector that found nothing
None == [name |-> "None", cells_affected |-> <<>>, value |-> 0, values_removed |-> {}]

\* position of a cell in the scan "for i in range(9): for j in range(9)"
RowMajor(p) == p[1] * N + p[2]

FirstRowMajor(S) == CHOOSE p \in S : \A q \in S : RowMajor(p) <= RowMajor(q)

\* list(candidates)[0] of a one-element set
TheOne(S) == CHOOSE v \in S : TRUE

\* SudokuSolver._update_all_candidates
UpdateAllCandidates(g, cs) ==
    [p \in Pos |->
        IF At(g, p[1], p[2]) = 0
        THEN [cs[p] EXCEPT !.candidates = GetCandidates(g, p[1], p[2])]
        ELSE cs[p]]

\* SudokuSolver._find_naked_single
FindNakedSingle(g, cs) ==
    LET S == {p \in Pos : At(g, p[1], p[2]) = 0 /\ Cardinality(cs[p].candidates) = 1}
    IN  IF S = {}
        THEN None
        ELSE LET p == FirstRowMajor(S)
             IN  Technique("Naked Single", p, TheOne(cs[p].candidates))

\* positions: the empty cells of a unit that have value among their candidates
Positions(g, cs, unit, value) ==
    {p \in unit : At(g, p[1], p[2]) = 0 /\ value \in cs[p].candidates}

\* _find_hidden_single, "Check rows": for i, for value, first hit
FindHiddenRow(g, cs) ==
    LET H == {h \in Idx \X Digits :
                /\ h[2] \notin RowValues(g, h[1])
                /\ Cardinality(Positions(g, cs, RowUnit(h[1]), h[2])) = 1}
    IN  IF H = {}
        THEN None
        ELSE LET h == CHOOSE x \in H : \A y \in H : x[1] * (N + 1) + x[2] <= y[1] * (N + 1) + y[2]
             IN  Technique("Hidden Single (Row)",
                           TheOne(Positions(g, cs, RowUnit(h[1]), h[2])), h[2])

\* _find_hidden_single, "Check columns": for j, for value, first hit
FindHiddenCol(g, cs) ==
    LET H == {h \in Idx \X Digits :
                /\ h[2] \notin ColValues(g, h[1])
                /\ Cardinality(Positions(g, cs, ColUnit(h[1]), h[2])) = 1}
    IN  IF H = {}
        THEN None
        ELSE LET h == CHOOSE x \in H : \A y \in H : x[1] * (N + 1) + x[2] <= y[1] * (N + 1) + y[2]
             IN  Technique("Hidden Single (Column)",
                           TheOne(Positions(g, cs, ColUnit(h[1]), h[2])), h[2])

\* order of the scan "for box_row: for box_col: for value"
BoxKey(h) == (h[1] * N + h[2]) * (N + 1) + h[3]

\* _find_hidden_single, "Check boxes"
FindHiddenBox(g, cs) ==
    LET H == {h \in BoxStarts \X BoxStarts \X Digits :
                /\ h[3] \notin BoxValues(g, h[1], h[2])
                /\ Cardinality(Positions(g, cs, BoxUnit(h[1], h[2]), h[3])) = 1}
    IN  IF H = {}
        THEN None
        ELSE LET h == CHOOSE x \in H : \A y \in H : BoxKey(x) <= BoxKey(y)
             IN  Technique("Hidden Single (Box)",
                           TheOne(Positions(g, cs, BoxUnit(h[1], h[2]), h[3])), h[3])

\* SudokuSolver._find_hidden_single
FindHiddenSingle(g, cs) ==
    LET r == FindHiddenRow(g, cs)
    IN  IF r # None THEN r
        ELSE LET c == FindHiddenCol(g, cs)
             IN  IF c # None THEN c ELSE FindHiddenBox(g, cs)

\* the four stubs: each returns None
FindNakedPair(g, cs) == None
FindHiddenPair(g, cs) == None
FindPointingPair(g, cs) == None
FindBoxLineReduction(g, cs) == None

\* the detectors tried with _find_hidden_single ahead of _find_naked_single
FirstTechnique_HiddenFirst(g, cs) ==
    LET t2 == FindHiddenSingle(g, cs)
    IN  IF t2 # None THEN t2 ELSE FindNakedSingle(g, cs)

\* the detectors of _find_next_technique, tried in order on candidates cs
FirstTechnique(g, cs) ==
    LET t1 == FindNakedSingle(g, cs)
    IN  IF t1 # None THEN t1
        ELSE LET t2 == FindHiddenSingle(g, cs)
             IN  IF t2 # None THEN t2
                 ELSE LET t3 == FindNakedPair(g, cs)
                      IN  IF t3 # None THEN t3
                          ELSE LET t4 == FindHiddenPair(g, cs)
                               IN  IF t4 # None THEN t4
                                   ELSE LET t5 == FindPointingPair(g, cs)
                                        IN  IF t5 # None THEN t5
                                            ELSE FindBoxLineReduction(g, cs)

\* SudokuSolver._find_next_technique: the refreshed cells and the technique
FindNextTechnique(g, cs) ==
    LET cs1 == UpdateAllCandidates(g, cs)
    IN  [cells |-> cs1, technique |-> FirstTechnique(g, cs1)]

RECURSIVE ApplyCells(_, _, _)
\* the loop of _apply_technique over cells_affected[k ..]
ApplyCells(st, affected, k) ==
    IF k > Len(affected)
    THEN st
    ELSE LET p == affected[k]
             cand == st.cells[p].candidates
         IN  IF Cardinality(cand) = 1
             THEN LET value == TheOne(cand)
                  IN  ApplyCells(
                        [grid |-> SetCell(st.grid, p[1], p[2], value),
                         cells |-> [st.cells EXCEPT ![p] =
                                       [@ EXCEPT !.value = value, !.candidates = {}]]],
                        affected, k + 1)
             ELSE ApplyCells(st, affected, k + 1)

\* _apply_technique that updates the cell record but forgets the grid
ApplyTechnique_CellOnly(g, cs, t) ==
    [grid |-> g, cells |-> ApplyCells([grid |-> g, cells |-> cs], t.cells_affected, 1).cells]

\* SudokuSolver._apply_technique
ApplyTechnique(g, cs, t) == ApplyCells([grid |-> g, cells |-> cs], t.cells_affected, 1)

\* ---------------------------------------------------------- backtracking

\* the safety test without the column
Seen_NoColumn(g, row, col) ==
    RowValues(g, row) \cup BoxValues(g, BoxStart(row), BoxStart(col))

\* the values a num is compared with by is_valid(row, col, num) of
\* _backtrack_solve and by SudokuGenerator._is_safe: those of the row, of the
\* column and of the 3x3 box
Seen(g, row, col) ==
    RowValues(g, row) \cup ColValues(g, col) \cup BoxValues(g, BoxStart(row), BoxStart(col))

\* is_valid(row, col, num) of _backtrack_solve, and SudokuGenerator._is_safe
IsSafe(g, row, col, num) == num \notin Seen(g, row, col)

\* row-major index of the first empty cell ("for i: for j: if grid[i, j] == 0"),
\* N * N when the scan finds none
NextEmpty(g) ==
    IF \A r \in 1 .. N : \A c \in 1 .. N : g[r][c] # 0
    THEN N * N
    ELSE LET r == CHOOSE r \in 1 .. N :
                    /\ \E c \in 1 .. N : g[r][c] = 0
                    /\ \A q \in 1 .. r - 1 : \A c \in 1 .. N : g[q][c] # 0
             c == CHOOSE c \in 1 .. N :
                    /\ g[r][c] = 0
                    /\ \A d \in 1 .. c - 1 : g[r][d] # 0
         IN  (r - 1) * N + (c - 1)

\* the num loop run from 9 down: the largest num at or after from that passes
NextSafe_Largest(g, row, col, from) ==
    LET seen == Seen(g, row, col)
        S == {n \in from .. N : n \notin seen}
    IN  IF S = {} THEN N + 1 ELSE CHOOSE n \in S : \A m \in S : n >= m

\* the next num of "for num in range(1, 10)", at or after from, that passes
\* the safety test at (row, col); N + 1 when the loop runs out
NextSafe(g, row, col, from) ==
    LET seen == Seen(g, row, col)
        S == {n \in from .. N : n \notin seen}
    IN  IF S = {} THEN N + 1 ELSE CHOOSE n \in S : \A m \in S : n <= m

\* The recursions of the source (solve, _fill_remaining, _count_solutions) are
\* modelled by their call stacks: a search state holds the array, the cells in
\* which the active calls have placed a value (path, innermost last) and
\* whether the innermost call has just returned to its caller (back).  One
\* step is one call starting or one return being handled in the caller's loop.

RECURSIVE Pow(_, _, _)
\* 2^k steps of Step from s, stopping when the search is done
Pow(Step(_), s, k) ==
    IF s.done THEN s
    ELSE IF k = 0 THEN Step(s)
    ELSE Pow(Step, Pow(Step, s, k - 1), k - 1)

RECURSIVE Run(_, _, _)
\* the search run to its end: 2^k steps, then 2^(k+1), ...
Run(Step(_), s, k) ==
    IF s.done THEN s ELSE Run(Step, Pow(Step, s, k), k + 1)

Top(path) == path[Len(path)]
Pop(path) == SubSeq(path, 1, Len(path) - 1)

\* the outermost call of solve() about to start on g
SolveStart(g) == [grid |-> g, path |-> <<>>, back |-> FALSE, done |-> FALSE, ok |-> FALSE]

\* a call of solve() starts: no empty cell: return True (to every caller);
\* else take the first empty cell and the first num that is valid there:
\* none: return False; else place it and recurse
SolveDown(s) ==
    LET k == NextEmpty(s.grid)
    IN  IF k = N * N
        THEN [s EXCEPT !.done = TRUE, !.ok = TRUE]
        ELSE LET num == NextSafe(s.grid, k \div N, k % N, 1)
             IN  IF num > N
                 THEN [s EXCEPT !.back = TRUE]
                 ELSE [s EXCEPT !.grid = SetCell(@, k \div N, k % N, num),
                                !.path = Append(@, k)]

\* the caller's loop without "self.grid[i, j] = 0" after the last num
SolveBack_NoReset(s) ==
    IF s.path = <<>>
    THEN [s EXCEPT !.done = TRUE, !.ok = FALSE]
    ELSE LET k == Top(s.path)
             g0 == SetCell(s.grid, k \div N, k % N, 0)
             num == NextSafe(g0, k \div N, k % N, At(s.grid, k \div N, k % N) + 1)
         IN  IF num > N
             THEN [s EXCEPT !.path = Pop(@)]
             ELSE [s EXCEPT !.grid = SetCell(g0, k \div N, k % N, num), !.back = FALSE]

\* a call returned False: the outermost one: the search failed; else the
\* caller resets its cell ("self.grid[i, j] = 0") and goes on with the next
\* valid num, or returns False itself when there is none
SolveBack(s) ==
    IF s.path = <<>>
    THEN [s EXCEPT !.done = TRUE, !.ok = FALSE]
    ELSE LET k == Top(s.path)
             g0 == SetCell(s.grid, k \div N, k % N, 0)
             num == NextSafe(g0, k \div N, k % N, At(s.grid, k \div N, k % N) + 1)
         IN  IF num > N
             THEN [s EXCEPT !.grid = g0, !.path = Pop(@)]
             ELSE [s EXCEPT !.grid = SetCell(g0, k \div N, k % N, num), !.back = FALSE]

\* one step of solve()
SolveStep(s) == IF s.back THEN SolveBack(s) ELSE SolveDown(s)

\* solve() that returns False as soon as it meets an empty cell
Solve_GivesUp(g) == [ok |-> NextEmpty(g) = N * N, grid |-> g]

\* solve() of _backtrack_solve: [ok, grid], the grid as the call leaves it
Solve(g) ==
    LET s == Run(SolveStep, SolveStart(g), 0)
    IN  [ok |-> s.ok, grid |-> s.grid]

\* SudokuSolver._backtrack_solve
BacktrackSolve(g) == Solve(g)

\* ---------------------------------------------------------------- inputs

\* the classic example puzzle of the specification
Classic ==
    << <<5, 3, 0, 0, 7, 0, 0, 0, 0>>,
       <<6, 0, 0, 1, 9, 5, 0, 0, 0>>,
       <<0, 9, 8, 0, 0, 0, 0, 6, 0>>,
       <<8, 0, 0, 0, 6, 0, 0, 0, 3>>,
       <<4, 0, 0, 8, 0, 3, 0, 0, 1>>,
       <<7, 0, 0, 0, 2, 0, 0, 0, 6>>,
       <<0, 6, 0, 0, 0, 0, 2, 8, 0>>,
       <<0, 0, 0, 4, 1, 9, 0, 0, 5>>,
       <<0, 0, 0, 0, 8, 0, 0, 7, 9>> >>

\* a complete valid grid (the solution of Classic)
Base ==
    << <<5, 3, 4, 6, 7, 8, 9, 1, 2>>,
       <<6, 7, 2, 1, 9, 5, 3, 4, 8>>,
       <<1, 9, 8, 3, 4, 2, 5, 6, 7>>,
       <<8, 5, 9, 7, 6, 1, 4, 2, 3>>,
       <<4, 2, 6, 8, 5, 3, 7, 9, 1>>,
       <<7, 1, 3, 9, 2, 4, 8, 5, 6>>,
       <<9, 6, 1, 5, 3, 7, 2, 8, 4>>,
       <<2, 8, 7, 4, 1, 9, 6, 3, 5>>,
       <<3, 4, 5, 2, 8, 6, 1, 7, 9>> >>

\* two orders in which cells of Base are emptied to make input puzzles
ClearOrders ==
    { << <<0, 6>>, <<0, 7>>, <<0, 8>>, <<4, 7>>, <<4, 8>>, <<8, 6>>, <<8, 8>>, <<8, 7>>, <<4, 6>> >>,
      << <<0, 5>>, <<2, 4>>, <<2, 5>>, <<5, 4>>, <<5, 5>>, <<6, 8>>, <<8, 6>>, <<6, 6>>, <<2, 8>> >> }

\* the order whose puzzles are also given with one cell overwritten
PokeOrder == CHOOSE o \in ClearOrders : o[1] = <<0, 6>>

\* the cell overwritten, and the values written there: a digit that makes a
\* duplicate and the out-of-range value
PokeCell == <<0, 8>>
PokeValues == {1, MaxValue}

RECURSIVE Clear(_, _, _)
\* g with the first k cells of order o emptied
Clear(g, o, k) ==
    IF k = 0 \/ k > Len(o) THEN g
    ELSE SetCell(Clear(g, o, k - 1), o[k][1], o[k][2], 0)

\* a matrix with too few rows
ShortPuzzle == SubSeq(Base, 1, N - 1)

RECURSIVE Place(_, _, _)
\* g with the first k of the givens <<row, col, value>> written
Place(g, givens, k) ==
    IF k = 0 THEN g
    ELSE SetCell(Place(g, givens, k - 1), givens[k][1], givens[k][2], givens[k][3])

\* a valid puzzle without a cell of one candidate and without a hidden single
\* in a row: 1 has one place, (8, 0), in column 0
ColumnPuzzle ==
    Place(ZeroGrid,
          << <<0, 0, 2>>, <<1, 0, 3>>, <<2, 0, 4>>, <<3, 0, 5>>, <<4, 0, 6>>, <<5, 0, 7>>,
             <<6, 4, 1>>, <<7, 7, 1>> >>, 8)

\* a valid puzzle whose first hidden single is in a box: 1 has one place,
\* (2, 2), in the top-left box, and several in every row and column
BoxPuzzle ==
    Place(ZeroGrid,
          << <<0, 1, 2>>, <<0, 2, 3>>, <<1, 0, 4>>, <<1, 2, 5>>, <<2, 0, 6>>, <<2, 1, 7>>,
             <<4, 0, 1>>, <<1, 4, 1>> >>, 8)

\* a valid puzzle without completion: after the naked single at (8, 0), no
\* technique is found and the search places values at (0, 3) and (0, 4)
\* before it meets (1, 7), where no value is valid
DeadEndPuzzle ==
    Place(Base,
          << <<0, 3, 0>>, <<0, 4, 0>>, <<3, 3, 0>>, <<3, 4, 0>>, <<1, 7, 0>>, <<3, 6, 0>>,
             <<3, 7, 4>>, <<8, 0, 0>> >>, 8)

\* the matrices handed to load_puzzle
Puzzles ==
    {Clear(Base, o, k) : o \in ClearOrders, k \in 0 .. MaxCleared}
    \cup {SetCell(Clear(Base, PokeOrder, k), PokeCell[1], PokeCell[2], v) :
             k \in 0 .. MaxCleared, v \in PokeValues}
    \cup {Classic, ZeroGrid, ShortPuzzle, ColumnPuzzle, BoxPuzzle, DeadEndPuzzle}

\* ------------------------------------------------------------ operations

\* Cell(i, j) as built by SudokuSolver.__init__
FreshCell == [value |-> 0, candidates |-> Digits, is_given |-> FALSE]

\* the positions load_puzzle cannot read from the matrix (IndexError)
Unreadable(p) == {q \in Pos : q[1] + 1 > Len(p) \/ q[2] + 1 > Len(p[q[1] + 1])}

\* the cell of a load_puzzle that leaves is_given at its default
LoadedCell_NoGiven(p, q) ==
    [value |-> At(p, q[1], q[2]),
     candidates |-> GetCandidates(p, q[1], q[2]),
     is_given |-> FALSE]

\* the cell load_puzzle builds at position q, candidates taken from the new grid
LoadedCell(p, q) ==
    [value |-> At(p, q[1], q[2]),
     candidates |-> GetCandidates(p, q[1], q[2]),
     is_given |-> At(p, q[1], q[2]) # 0]

\* the cells after load_puzzle(p): the loop replaces cells in row-major order
\* and stops at the first position it cannot read
LoadCells(p, cs) ==
    LET bad == Unreadable(p)
        stop == IF bad = {} THEN N * N ELSE RowMajor(FirstRowMajor(bad))
    IN  [q \in Pos |-> IF RowMajor(q) < stop THEN LoadedCell(p, q) ELSE cs[q]]

Init ==
    /\ grid = ZeroGrid
    /\ cells = [q \in Pos |-> FreshCell]
    /\ techniques_used = <<>>
    /\ pc = "idle"
    /\ outcome = "new"
    /\ hint = None
    /\ puzzle = ZeroGrid
    /\ gen_pc = "idle"
    /\ difficulty = "MEDIUM"
    /\ complete_grid = ZeroGrid
    /\ gen_puzzle = ZeroGrid
    /\ positions = <<>>
    /\ visited = 0
    /\ removed = 0
    /\ result = ZeroGrid

\* SudokuSolver.load_puzzle
LoadPuzzle(p) ==
    /\ pc = "idle"
    /\ grid' = p
    /\ cells' = LoadCells(p, cells)
    /\ outcome' = IF Unreadable(p) = {} THEN "loaded" ELSE "IndexError"
    /\ puzzle' = p
    /\ hint' = None
    /\ UNCHANGED <<techniques_used, pc>>
    /\ UNCHANGED gen_vars

\* solve_with_techniques, entry: techniques_used = []
SolveBegin ==
    /\ pc = "idle"
    /\ techniques_used' = <<>>
    /\ pc' = "solving"
    /\ outcome' = "running"
    /\ hint' = None
    /\ UNCHANGED <<grid, cells, puzzle>>
    /\ UNCHANGED gen_vars

\* the loop test fails on a matrix that is not 9x9: numpy raises IndexError
SolveIndexError ==
    /\ pc = "solving"
    /\ ~Shape9(grid)
    /\ pc' = "idle"
    /\ outcome' = "IndexError"
    /\ UNCHANGED <<grid, cells, techniques_used, hint, puzzle>>
    /\ UNCHANGED gen_vars

\* "while not self.is_solved()" is false: return self.techniques_used
SolveReturn ==
    /\ pc = "solving"
    /\ Shape9(grid)
    /\ IsSolved(grid)
    /\ pc' = "idle"
    /\ outcome' = "returned"
    /\ UNCHANGED <<grid, cells, techniques_used, hint, puzzle>>
    /\ UNCHANGED gen_vars

\* one iteration that finds a technique: apply it and append it
SolveApply ==
    /\ pc = "solving"
    /\ Shape9(grid)
    /\ ~IsSolved(grid)
    /\ Len(techniques_used) < MaxTech
    /\ LET f == FindNextTechnique(grid, cells)
       IN  /\ f.technique # None
           /\ LET st == ApplyTechnique(grid, f.cells, f.technique)
              IN  /\ grid' = st.grid
                  /\ cells' = st.cells
                  /\ techniques_used' = Append(techniques_used, f.technique)
    /\ UNCHANGED <<pc, outcome, hint, puzzle>>
    /\ UNCHANGED gen_vars

\* one iteration that finds no technique and whose backtracking succeeds: break, return
SolveBacktrack ==
    /\ pc = "solving"
    /\ Shape9(grid)
    /\ ~IsSolved(grid)
    /\ LET f == FindNextTechnique(grid, cells)
       IN  /\ f.technique = None
           /\ LET r == BacktrackSolve(grid)
              IN  /\ r.ok
                  /\ grid' = r.grid
                  /\ cells' = f.cells
    /\ pc' = "idle"
    /\ outcome' = "returned"
    /\ UNCHANGED <<techniques_used, hint, puzzle>>
    /\ UNCHANGED gen_vars

\* one iteration that finds no technique and whose backtracking fails:
\* raise ValueError("Puzzle is unsolvable")
SolveUnsolvable ==
    /\ pc = "solving"
    /\ Shape9(grid)
    /\ ~IsSolved(grid)
    /\ LET f == FindNextTechnique(grid, cells)
       IN  /\ f.technique = None
           /\ LET r == BacktrackSolve(grid)
              IN  /\ ~r.ok
                  /\ grid' = r.grid
                  /\ cells' = f.cells
    /\ pc' = "idle"
    /\ outcome' = "ValueError"
    /\ UNCHANGED <<techniques_used, hint, puzzle>>
    /\ UNCHANGED gen_vars

\* get_hint that applies the technique it found before returning it
GetHint_Applies ==
    /\ pc = "idle"
    /\ IF Shape9(grid)
       THEN LET f == FindNextTechnique(grid, UpdateAllCandidates(grid, cells))
                st == IF f.technique = None
                      THEN [grid |-> grid, cells |-> f.cells]
                      ELSE ApplyTechnique(grid, f.cells, f.technique)
            IN  /\ grid' = st.grid
                /\ cells' = st.cells
                /\ hint' = f.technique
                /\ outcome' = "hint"
       ELSE /\ outcome' = "IndexError"
            /\ UNCHANGED <<grid, cells, hint>>
    /\ UNCHANGED <<techniques_used, pc, puzzle>>
    /\ UNCHANGED gen_vars

\* SudokuSolver.get_hint: _update_all_candidates, then _find_next_technique
GetHint ==
    /\ pc = "idle"
    /\ IF Shape9(grid)
       THEN LET f == FindNextTechnique(grid, UpdateAllCandidates(grid, cells))
            IN  /\ cells' = f.cells
                /\ hint' = f.technique
                /\ outcome' = "hint"
       ELSE /\ outcome' = "IndexError"
            /\ UNCHANGED <<cells, hint>>
    /\ UNCHANGED <<grid, techniques_used, pc, puzzle>>
    /\ UNCHANGED gen_vars

Next ==
    \/ \E p \in Puzzles : LoadPuzzle(p)
    \/ SolveBegin
    \/ SolveIndexError
    \/ SolveReturn
    \/ SolveApply
    \/ SolveBacktrack
    \/ SolveUnsolvable
    \/ GetHint

Spec == Init /\ [][Next]_vars

\* ------------------------------------------------------------- generator

\* class Difficulty
Difficulties == {"EASY", "MEDIUM", "HARD", "EXPERT"}

\* cells_to_remove of _remove_numbers
CellsToRemove(d) ==
    CASE d = "EASY" -> 30
      [] d = "MEDIUM" -> 40
      [] d = "HARD" -> 50
      [] d = "EXPERT" -> 60

\* random.shuffle is followed for the generator states seed 0 .. MaxSeed; a
\* seed fixes the outcome of every shuffle of one generate_puzzle call.

\* multipliers coprime to 9
BoxMuls == <<1, 2, 4, 5, 7, 8>>

\* an outcome of random.shuffle(numbers) in _fill_box: place k (from 0) holds
\* ((a * k + s) mod 9) + 1
BoxShuffle(a, s) == [k \in 1 .. N |-> ((a * (k - 1) + s) % N) + 1]

\* the outcome of the n-th (from 0) shuffle of _fill_box under a seed
BoxShuffleOf(seed, n) == BoxShuffle(BoxMuls[((seed + n) % Len(BoxMuls)) + 1], seed + 4 * n)

\* [(i, j) for i in range(9) for j in range(9)]
AllPositions == [k \in 1 .. N * N |-> <<(k - 1) \div N, (k - 1) % N>>]

\* the outcome of random.shuffle(positions) under a seed: place k (from 0)
\* holds the position at index (26 * k + seed) mod 81 (26 is coprime to 81)
PositionShuffleOf(seed) ==
    [k \in 1 .. N * N |-> AllPositions[((26 * (k - 1) + seed) % (N * N)) + 1]]

Seeds == 0 .. MaxSeed

\* SudokuGenerator._fill_box: grid[row + i, col + j] = numbers[i * 3 + j]
FillBox(g, row, col, numbers) ==
    [r \in 1 .. N |-> [c \in 1 .. N |->
        IF r - 1 \in row .. row + BoxN - 1 /\ c - 1 \in col .. col + BoxN - 1
        THEN numbers[(r - 1 - row) * BoxN + (c - 1 - col) + 1]
        ELSE g[r][c]]]

\* one step of _fill_remaining: the same search as solve(), on the
\* generator's array with _is_safe
FillStep(s) == IF s.back THEN SolveBack(s) ELSE SolveDown(s)

\* SudokuGenerator._fill_remaining: [ok, grid], the grid as the call leaves it
FillRemaining(g) ==
    LET s == Run(FillStep, SolveStart(g), 0)
    IN  [ok |-> s.ok, grid |-> s.grid]

\* SudokuGenerator._generate_complete_grid: the three diagonal boxes, then
\* _fill_remaining, whose return value is not looked at
GenerateCompleteGrid(seed) ==
    LET g1 == FillBox(ZeroGrid, 0, 0, BoxShuffleOf(seed, 0))
        g2 == FillBox(g1, BoxN, BoxN, BoxShuffleOf(seed, 1))
        g3 == FillBox(g2, 2 * BoxN, 2 * BoxN, BoxShuffleOf(seed, 2))
    IN  FillRemaining(g3).grid

\* the outermost call of _count_solutions about to start
CountStart(g, solutions, max_solutions) ==
    [grid |-> g, path |-> <<>>, back |-> FALSE, done |-> FALSE,
     solutions |-> solutions, max_solutions |-> max_solutions]

\* _count_solutions that appends without looking at the cap
CountDown_NoCap(s) ==
    LET k == NextEmpty(s.grid)
    IN  IF k = N * N
        THEN [s EXCEPT !.solutions = Append(@, s.grid), !.back = TRUE]
        ELSE LET num == NextSafe(s.grid, k \div N, k % N, 1)
             IN  IF num > N
                 THEN [s EXCEPT !.back = TRUE]
                 ELSE [s EXCEPT !.grid = SetCell(@, k \div N, k % N, num),
                                !.path = Append(@, k)]

\* a call of _count_solutions starts: return at once when the cap is reached;
\* no empty cell: append a copy of the grid and return; else take the first
\* empty cell and the first safe num: none: return; else place it and recurse
CountDown(s) ==
    IF Len(s.solutions) >= s.max_solutions
    THEN [s EXCEPT !.back = TRUE]
    ELSE LET k == NextEmpty(s.grid)
         IN  IF k = N * N
             THEN [s EXCEPT !.solutions = Append(@, s.grid), !.back = TRUE]
             ELSE LET num == NextSafe(s.grid, k \div N, k % N, 1)
                  IN  IF num > N
                      THEN [s EXCEPT !.back = TRUE]
                      ELSE [s EXCEPT !.grid = SetCell(@, k \div N, k % N, num),
                                     !.path = Append(@, k)]

\* a call returned: the outermost one: the count is over; else the caller
\* resets its cell, returns when the cap is reached, and otherwise goes on
\* with the next safe num, or returns when there is none
CountBack(s) ==
    IF s.path = <<>>
    THEN [s EXCEPT !.done = TRUE]
    ELSE LET k == Top(s.path)
             g0 == SetCell(s.grid, k \div N, k % N, 0)
             num == NextSafe(g0, k \div N, k % N, At(s.grid, k \div N, k % N) + 1)
         IN  IF Len(s.solutions) >= s.max_solutions \/ num > N
             THEN [s EXCEPT !.grid = g0, !.path = Pop(@)]
             ELSE [s EXCEPT !.grid = SetCell(g0, k \div N, k % N, num), !.back = FALSE]

\* one step of _count_solutions
CountStep(s) == IF s.back THEN CountBack(s) ELSE CountDown(s)

\* SudokuGenerator._count_solutions: the list solutions as the call leaves it
CountSolutions(g, solutions, max_solutions) ==
    Run(CountStep, CountStart(g, solutions, max_solutions), 0).solutions

\* _has_unique_solution that accepts any grid with a solution
HasUniqueSolution_AnySolution(g) == Len(CountSolutions(g, <<>>, 2)) >= 1

\* SudokuGenerator._has_unique_solution (max_solutions defaults to 2)
HasUniqueSolution(g) == Len(CountSolutions(g, <<>>, 2)) = 1

\* the loop body counting a position whose value it restores
RemoveAt_CountsRestored(g, p) ==
    LET cleared == SetCell(g, p[1], p[2], 0)
    IN  IF HasUniqueSolution(cleared)
        THEN [puzzle |-> cleared, kept |-> TRUE]
        ELSE [puzzle |-> SetCell(cleared, p[1], p[2], At(g, p[1], p[2])), kept |-> TRUE]

\* one pass of the loop body of _remove_numbers at position p
RemoveAt(g, p) ==
    LET cleared == SetCell(g, p[1], p[2], 0)
    IN  IF HasUniqueSolution(cleared)
        THEN [puzzle |-> cleared, kept |-> TRUE]
        ELSE [puzzle |-> SetCell(cleared, p[1], p[2], At(g, p[1], p[2])), kept |-> FALSE]

\* generate_puzzle up to the loop of _remove_numbers.  SudokuGenerator keeps
\* nothing between calls, so one call is followed per behaviour.
GenBegin(d, seed) ==
    /\ gen_pc = "idle"
    /\ difficulty' = d
    /\ complete_grid' = GenerateCompleteGrid(seed)
    /\ gen_puzzle' = complete_grid'
    /\ positions' = PositionShuffleOf(seed)
    /\ visited' = 0
    /\ removed' = 0
    /\ gen_pc' = "removing"
    /\ UNCHANGED result
    /\ UNCHANGED solver_vars

\* the loop without the test "if removed >= cells_to_remove[difficulty]: break"
GenVisit_NoBreak ==
    /\ gen_pc = "removing"
    /\ visited < Len(positions)
    /\ LET r == RemoveAt(gen_puzzle, positions[visited + 1])
       IN  /\ gen_puzzle' = r.puzzle
           /\ removed' = IF r.kept THEN removed + 1 ELSE removed
    /\ visited' = visited + 1
    /\ UNCHANGED <<gen_pc, difficulty, complete_grid, positions, result>>
    /\ UNCHANGED solver_vars

\* one iteration of "for row, col in positions" that does not break
GenVisit ==
    /\ gen_pc = "removing"
    /\ visited < Len(positions)
    /\ removed < CellsToRemove(difficulty)
    /\ LET r == RemoveAt(gen_puzzle, positions[visited + 1])
       IN  /\ gen_puzzle' = r.puzzle
           /\ removed' = IF r.kept THEN removed + 1 ELSE removed
    /\ visited' = visited + 1
    /\ UNCHANGED <<gen_pc, difficulty, complete_grid, positions, result>>
    /\ UNCHANGED solver_vars

\* the loop ends (break, or positions exhausted): return puzzle.tolist()
GenReturn ==
    /\ gen_pc = "removing"
    /\ visited >= Len(positions) \/ removed >= CellsToRemove(difficulty)
    /\ result' = gen_puzzle
    /\ gen_pc' = "done"
    /\ UNCHANGED <<difficulty, complete_grid, gen_puzzle, positions, visited, removed>>
    /\ UNCHANGED solver_vars

GenNext ==
    \/ \E d \in Difficulties, seed \in Seeds : GenBegin(d, seed)
    \/ GenVisit
    \/ GenReturn

GenSpec == Init /\ [][GenNext]_vars

\* ------------------------------------------------------------ properties

\* two different cells that share a row, a column or a 3x3 box
SameUnit(p, q) ==
    /\ p # q
    /\ \/ p[1] = q[1]
       \/ p[2] = q[2]
       \/ BoxStart(p[1]) = BoxStart(q[1]) /\ BoxStart(p[2]) = BoxStart(q[2])

\* the other cells of the row, the column and the box of each cell
PeersOf == [q \in Pos |-> {p \in Pos : SameUnit(p, q)}]

\* no non-zero value appears twice in a row, a column or a box
NoDuplicate(g) ==
    \A p \in Pos : At(g, p[1], p[2]) # 0 =>
        \A q \in PeersOf[p] : At(g, q[1], q[2]) # At(g, p[1], p[2])

\* number of empty cells
NumEmpty(g) == Cardinality({p \in Pos : At(g, p[1], p[2]) = 0})

\* a 9x9 matrix of values 0..9
WellFormed(p) == Shape9(p) /\ \A q \in Pos : At(p, q[1], q[2]) \in 0 .. N

\* C1: the grid generate_puzzle returns has no duplicate in any row, column
\* or box, and the count-mode oracle capped at 2 finds exactly one solution
\* of it, for every difficulty.
C1_GeneratedUnique ==
    gen_pc = "done" =>
        /\ NoDuplicate(result)
        /\ Len(CountSolutions(result, <<>>, 2)) = 1

\* a returned Expert puzzle in whose making a clearing was reverted
C1_Witness ==
    /\ gen_pc = "done"
    /\ difficulty = "EXPERT"
    /\ removed > 0
    /\ removed < visited

\* C2: whenever solve_with_techniques returns normally, is_solved() is true
\* on the solver's grid.
C2_ReturnedIsSolved == outcome = "returned" => IsSolved(grid)

\* C3: solve_with_techniques runs to completion.  An iteration of its loop
\* that applies a technique starts from the grid alone (the candidates are
\* recomputed from it), so the loop ends only if every such iteration
\* changes the grid: an iteration that leaves it as it was is repeated
\* without end.
C3_EveryIterationAdvances ==
    [][(pc = "solving" /\ pc' = "solving") => grid' # grid]_vars

\* C4: after load_puzzle of the classic example, solve_with_techniques never
\* raises, its loop never makes more iterations than it has filled cells (so
\* the loop ends), and when it has returned is_solved() is true.
C4_ClassicSolved ==
    puzzle = Classic =>
        /\ outcome \notin {"ValueError", "IndexError"}
        /\ pc = "solving" => Len(techniques_used) <= NumEmpty(Classic) - NumEmpty(grid)
        /\ outcome = "returned" => IsSolved(grid)

\* the classic example solved, every empty cell filled by a technique
C4_Witness ==
    /\ puzzle = Classic
    /\ outcome = "returned"
    /\ IsSolved(grid)
    /\ Len(techniques_used) = NumEmpty(Classic)

\* C5: a step of solve_with_techniques raises the unsolvable error exactly
\* when the grid is unsolved, the detector finds no technique and no complete
\* assignment of the empty cells exists (the count-mode oracle finds none);
\* the error ends the call there.
C5_UnsolvableExactly ==
    [][pc = "solving" =>
          /\ outcome' = "ValueError" <=>
                /\ Shape9(grid)
                /\ ~IsSolved(grid)
                /\ FindNextTechnique(grid, cells).technique = None
                /\ CountSolutions(grid, <<>>, 1) = <<>>
          /\ outcome' = "ValueError" => pc' = "idle" /\ techniques_used' = techniques_used
      ]_vars

\* the unsolvable error raised on a grid that has no duplicate
C5_Witness == outcome = "ValueError" /\ pc = "idle" /\ NoDuplicate(grid)

\* C6: load_puzzle of a matrix that is not 9x9 or holds a value outside 0..9
\* raises an error and leaves the solver's grid and cells as they were.
C6_LoadRejectsInvalid ==
    [][\A p \in Puzzles :
          (LoadPuzzle(p) /\ ~WellFormed(p)) =>
              /\ outcome' # "loaded"
              /\ grid' = grid
              /\ cells' = cells
      ]_vars

\* C7: get_hint leaves the grid, every cell's value and every cell's
\* is_given flag as they were, whether it returns or raises.
C7_HintReadOnly ==
    [][(outcome' \in {"hint", "IndexError"} /\ GetHint) =>
          /\ grid' = grid
          /\ \A q \in Pos : /\ cells'[q].value = cells[q].value
                            /\ cells'[q].is_given = cells[q].is_given
      ]_vars

\* a hint was returned for a grid with empty cells after its candidates were
\* refreshed
C7_Witness ==
    /\ outcome = "hint"
    /\ hint # None
    /\ hint.name = "Hidden Single (Row)"

\* C8: a get_hint that directly follows a get_hint returns the same result.
C8_HintIdempotent ==
    [][(outcome = "hint" /\ outcome' = "hint" /\ GetHint) => hint' = hint]_vars

\* a hint that names a naked single was returned
C8_Witness ==
    /\ outcome = "hint"
    /\ hint.name = "Naked Single"
    /\ At(grid, hint.cells_affected[1][1], hint.cells_affected[1][2]) = 0

\* C9: is_valid() is true exactly when no row, column or box holds a
\* non-zero value twice; empty cells never make a grid invalid.
C9_IsValidIffNoDuplicate ==
    Shape9(grid) => (IsValid(grid) <=> NoDuplicate(grid))

\* a partially filled grid that is valid
C9_Witness ==
    /\ Shape9(grid)
    /\ IsValid(grid)
    /\ NumEmpty(grid) \in 1 .. N * N - 1

\* C10: is_solved() is true exactly when every cell is non-zero and no unit
\* holds a value twice; the all-zero grid is valid and not solved.
C10_IsSolvedIffCompleteValid ==
    Shape9(grid) =>
        /\ IsSolved(grid) <=> (NumEmpty(grid) = 0 /\ NoDuplicate(grid))
        /\ grid = ZeroGrid => IsValid(grid) /\ ~IsSolved(grid)

\* solve_with_techniques returned on a complete valid grid
C10_Witness ==
    /\ outcome = "returned"
    /\ IsSolved(grid)
    /\ puzzle # grid

\* the values held by the cells that share a unit with q
PeerValues(g, q) == {At(g, p[1], p[2]) : p \in PeersOf[q]}

\* C11: _get_candidates returns {} for a filled cell and, for an empty cell,
\* 1..9 without the values of the other cells of its row, column and box, on
\* every grid the solver holds; load_puzzle stores that set in the cell; on
\* a loaded grid without duplicates, writing any returned candidate into its
\* cell leaves no duplicate.
C11_CandidatesExact ==
    Shape9(grid) =>
        /\ \A q \in Pos :
              LET cand == GetCandidates(grid, q[1], q[2])
              IN  /\ At(grid, q[1], q[2]) # 0 => cand = {}
                  /\ At(grid, q[1], q[2]) = 0 => cand = Digits \ PeerValues(grid, q)
                  /\ outcome = "loaded" => cells[q].candidates = cand
        /\ (outcome = "loaded" /\ NoDuplicate(grid)) =>
              \A q \in Pos : \A v \in GetCandidates(grid, q[1], q[2]) :
                  NoDuplicate(SetCell(grid, q[1], q[2], v))

\* a loaded valid grid with an empty cell that has several candidates, one of
\* its row's, column's or box's values excluded
C11_Witness ==
    /\ outcome = "loaded"
    /\ NoDuplicate(grid)
    /\ \E q \in Pos :
          /\ At(grid, q[1], q[2]) = 0
          /\ Cardinality(cells[q].candidates) >= 2
          /\ cells[q].candidates # Digits
\* C12: the matrix generate_puzzle returns for a difficulty with target t
\* has between 81 - t and 81 non-zero cells; the call returns also when
\* fewer than t cells could be removed.
C12_RemovedAtMostTarget ==
    gen_pc = "done" =>
        /\ Shape9(result)
        /\ N * N - NumEmpty(result) \in (N * N - CellsToRemove(difficulty)) .. (N * N)

\* a puzzle was returned with fewer cells removed than the target
C12_Witness ==
    /\ gen_pc = "done"
    /\ NumEmpty(result) \in 1 .. CellsToRemove(difficulty) - 1
\* the candidates of every cell, from the values of the cells sharing a unit
CandOf(g) ==
    [q \in Pos |-> IF At(g, q[1], q[2]) = 0 THEN Digits \ PeerValues(g, q) ELSE {}]

\* the 27 units in the order rows, columns, boxes (boxes row by row)
UnitAt(k) ==
    IF k <= N THEN RowUnit(k - 1)
    ELSE IF k <= 2 * N THEN ColUnit(k - N - 1)
    ELSE BoxUnit(((k - 2 * N - 1) \div BoxN) * BoxN, ((k - 2 * N - 1) % BoxN) * BoxN)

UnitName(k) ==
    IF k <= N THEN "Hidden Single (Row)"
    ELSE IF k <= 2 * N THEN "Hidden Single (Column)"
    ELSE "Hidden Single (Box)"

\* t is the technique the fixed priority order prescribes on grid g
FirstInOrder(g, t) ==
    LET cand == CandOf(g)
        singles == {q \in Pos : Cardinality(cand[q]) = 1}
        hidden == {h \in (1 .. 3 * N) \X Digits :
                      Cardinality({q \in UnitAt(h[1]) : h[2] \in cand[q]}) = 1}
    IN  IF singles # {}
        THEN /\ t.name = "Naked Single"
             /\ Len(t.cells_affected) = 1
             /\ t.cells_affected[1] \in singles
             /\ \A r \in singles : RowMajor(t.cells_affected[1]) <= RowMajor(r)
             /\ cand[t.cells_affected[1]] = {t.value}
        ELSE IF hidden # {}
        THEN \E h \in hidden :
                /\ \A h2 \in hidden : h[1] < h2[1] \/ (h[1] = h2[1] /\ h[2] <= h2[2])
                /\ t.name = UnitName(h[1])
                /\ t.value = h[2]
                /\ {q \in UnitAt(h[1]) : h[2] \in cand[q]} = {t.cells_affected[1]}
        ELSE t = None

\* C13: on every grid the solver holds, _find_next_technique returns the
\* Naked Single of the row-major-first empty cell with one candidate if there
\* is one, otherwise the first Hidden Single scanning rows, then columns,
\* then boxes with values ascending within a unit, otherwise none; get_hint
\* returns that technique.
C13_FirstTechniqueInOrder ==
    Shape9(grid) =>
        /\ FirstInOrder(grid, FindNextTechnique(grid, cells).technique)
        /\ outcome = "hint" => FirstInOrder(grid, hint)

\* get_hint returned a Hidden Single of a box, found after the rows and the
\* columns had none, for a cell that has other candidates too
C13_Witness ==
    /\ outcome = "hint"
    /\ hint.name = "Hidden Single (Box)"
    /\ Cardinality(cells[hint.cells_affected[1]].candidates) >= 2
\* C14: every step of solve_with_techniques that appends a technique to the
\* output sequence advanced the grid: the technique's cell was empty before
\* the step and holds the technique's value after it, and the grid has fewer
\* empty cells than before.
C14_AppendedTechniqueFills ==
    [][(pc = "solving" /\ Len(techniques_used') = Len(techniques_used) + 1) =>
          LET t == techniques_used'[Len(techniques_used')]
              p == t.cells_affected[1]
          IN  /\ At(grid, p[1], p[2]) = 0
              /\ At(grid', p[1], p[2]) = t.value
              /\ NumEmpty(grid') < NumEmpty(grid)
      ]_vars
\* g has a completion: the count-mode search capped at 1 finds one
HasCompletion(g) == CountSolutions(g, <<>>, 1) # <<>>

\* g with every cell that precedes e in row-major order taken from sol, and v at e
PrefixWith(g, sol, e, v) ==
    [r \in 1 .. N |-> [c \in 1 .. N |->
        IF (r - 1) * N + (c - 1) < RowMajor(e) THEN sol[r][c]
        ELSE IF <<r - 1, c - 1>> = e THEN v
        ELSE g[r][c]]]

\* no completion of g agrees with sol before an empty cell and is smaller there
LexLeast(g, sol) ==
    \A e \in Pos : At(g, e[1], e[2]) = 0 =>
        \A v \in 1 .. At(sol, e[1], e[2]) - 1 :
            LET g1 == PrefixWith(g, sol, e, v)
            IN  ~(v \notin PeerValues(PrefixWith(g, sol, e, 0), e) /\ HasCompletion(g1))

\* C15: when the solve loop falls back to _backtrack_solve on a grid without
\* duplicates, the search succeeds exactly when the grid has a completion;
\* the grid it leaves is then complete, without duplicates, equal to the
\* entry grid on every cell that was non-zero, and the least completion in
\* row-major order of the empty cells with values ascending; a failed search
\* leaves the grid as it was; _fill_remaining gives the same answer and grid.
C15_BacktrackFirstCompletion ==
    [][(pc = "solving" /\ pc' = "idle" /\ Shape9(grid) /\ ~IsSolved(grid) /\ NoDuplicate(grid)) =>
          /\ outcome' = "returned" <=> HasCompletion(grid)
          /\ outcome' = "returned" =>
                /\ NumEmpty(grid') = 0
                /\ NoDuplicate(grid')
                /\ \A q \in Pos : At(grid, q[1], q[2]) # 0 =>
                                     At(grid', q[1], q[2]) = At(grid, q[1], q[2])
                /\ LexLeast(grid, grid')
          /\ outcome' # "returned" => grid' = grid
          /\ FillRemaining(grid) = [ok |-> outcome' = "returned", grid |-> grid']
      ]_vars

\* backtracking completed the empty grid, which has many completions
C15_Witness ==
    /\ puzzle = ZeroGrid
    /\ outcome = "returned"
    /\ techniques_used = <<>>
    /\ NumEmpty(grid) = 0
\* the caps the count-mode search is examined with (the generator uses 2)
Caps == 0 .. 2

\* A reference for the number of completions: the search of the same cells
\* with values from 9 down finds the greatest completion, solve mode finds
\* the least; a grid has one completion exactly when the two are equal.

\* the largest value at most from that no cell sharing a unit with q holds, 0 if none
PrevFree(g, q, from) ==
    LET S == (1 .. from) \ PeerValues(g, q)
    IN  IF S = {} THEN 0 ELSE CHOOSE n \in S : \A m \in S : n >= m

RefStart(g) == [grid |-> g, path |-> <<>>, back |-> FALSE, done |-> FALSE, found |-> {}]

RefDown(s) ==
    LET k == NextEmpty(s.grid)
    IN  IF k = N * N
        THEN [s EXCEPT !.found = {s.grid}, !.done = TRUE]
        ELSE LET num == PrevFree(s.grid, <<k \div N, k % N>>, N)
             IN  IF num = 0
                 THEN [s EXCEPT !.back = TRUE]
                 ELSE [s EXCEPT !.grid = SetCell(@, k \div N, k % N, num),
                                !.path = Append(@, k)]

RefBack(s) ==
    IF s.path = <<>>
    THEN [s EXCEPT !.done = TRUE]
    ELSE LET k == Top(s.path)
             g0 == SetCell(s.grid, k \div N, k % N, 0)
             num == PrevFree(g0, <<k \div N, k % N>>, At(s.grid, k \div N, k % N) - 1)
         IN  IF num = 0
             THEN [s EXCEPT !.grid = g0, !.path = Pop(@)]
             ELSE [s EXCEPT !.grid = SetCell(g0, k \div N, k % N, num), !.back = FALSE]

RefStep(s) == IF s.back THEN RefBack(s) ELSE RefDown(s)

\* the greatest completion of g, as a set: empty when g has none
GreatestCompletion(g) == Run(RefStep, RefStart(g), 0).found

\* the number of completions of g, counted up to 2
CompletionsUpTo2(g) ==
    LET great == GreatestCompletion(g)
    IN  IF great = {} THEN 0
        ELSE IF great = {Solve(g).grid} THEN 1
        ELSE 2

\* sol is a completion of g
CompletionOf(g, sol) ==
    /\ NumEmpty(sol) = 0
    /\ NoDuplicate(sol)
    /\ \A q \in Pos : At(g, q[1], q[2]) # 0 => At(sol, q[1], q[2]) = At(g, q[1], q[2])

\* the smaller of two numbers
Min(a, b) == IF a <= b THEN a ELSE b

\* for every cap m the accumulator _count_solutions(g, [], m) leaves holds
\* min(m, number of completions of g) distinct completions of g, and
\* _has_unique_solution(g) says whether g has exactly one completion
CountExact(g) ==
    LET n == CompletionsUpTo2(g)
    IN  /\ \A m \in Caps :
              LET sols == CountSolutions(g, <<>>, m)
              IN  /\ Len(sols) = Min(m, n)
                  /\ \A i \in 1 .. Len(sols) : CompletionOf(g, sols[i])
                  /\ \A i, j \in 1 .. Len(sols) : i # j => sols[i] # sols[j]
        /\ HasUniqueSolution(g) <=> n = 1

\* C16: at every position the removal loop visits, the count-mode search on
\* the tentatively cleared puzzle, started with an empty accumulator and any
\* cap m, leaves at most m solutions: min(m, number of completions) distinct
\* completions of the puzzle; _has_unique_solution is true exactly when the
\* puzzle has exactly one completion.
C16_CountExact ==
    [][(gen_pc = "removing" /\ visited' = visited + 1) =>
          LET p == positions[visited + 1]
          IN  CountExact(SetCell(gen_puzzle, p[1], p[2], 0))
      ]_vars

\* the loop has met a cleared puzzle with several completions and one with
\* exactly one
C16_Witness ==
    /\ gen_pc = "removing"
    /\ removed >= 1
    /\ visited > removed

\* the state of the removal loop: the counter is the number of zero cells,
\* the other cells are those of the complete grid, the puzzle has exactly one
\* completion, and the counter is within the target
RemovalState ==
    /\ removed = NumEmpty(gen_puzzle)
    /\ removed <= CellsToRemove(difficulty)
    /\ \A q \in Pos : At(gen_puzzle, q[1], q[2]) # 0 =>
                          At(gen_puzzle, q[1], q[2]) = At(complete_grid, q[1], q[2])
    /\ CompletionsUpTo2(gen_puzzle) = 1

\* one visit: the clearing is kept and counted, or the puzzle and the counter
\* are as before and the cleared puzzle does not have exactly one completion
RemovalVisit ==
    LET p == positions[visited + 1]
        cleared == SetCell(gen_puzzle, p[1], p[2], 0)
    IN  /\ removed < CellsToRemove(difficulty)
        /\ At(gen_puzzle, p[1], p[2]) # 0
        /\ \/ gen_puzzle' = cleared /\ removed' = removed + 1
           \/ /\ gen_puzzle' = gen_puzzle
              /\ removed' = removed
              /\ CompletionsUpTo2(cleared) # 1

\* C17: in the removal loop, after every visited position, removed is the
\* number of zero cells of the puzzle, every non-zero cell is the complete
\* grid's, and the puzzle has exactly one completion; a visit keeps and counts
\* the clearing only when one completion is left and otherwise restores the
\* value and counts nothing; no position is visited once removed has reached
\* the target.
C17_RemovalLoop ==
    /\ [](gen_pc \in {"removing", "done"} => RemovalState)
    /\ [][(gen_pc = "removing" /\ visited' = visited + 1) => RemovalVisit]_vars

\* the loop stopped at the target before the positions ran out, having kept
\* some clearings and restored others
C17_Witness ==
    /\ gen_pc = "done"
    /\ removed = CellsToRemove(difficulty)
    /\ visited > removed
    /\ visited < Len(positions)

\* the loaded matrix is 9x9 and passes is_valid
LoadedValid == Shape9(puzzle) /\ IsValid(puzzle)

\* every cell the step changes was empty and gets a value that no other cell
\* of its row, column or box holds afterwards
PlacesOnlyFresh ==
    \A q \in Pos :
        At(grid', q[1], q[2]) # At(grid, q[1], q[2]) =>
            /\ At(grid, q[1], q[2]) = 0
            /\ At(grid', q[1], q[2]) \notin PeerValues(grid', q)

\* C19: when the loaded grid is valid, is_valid() holds in every state of
\* solve_with_techniques and after it, and every step that changes the grid
\* (an applied technique, the backtracking fallback) only fills empty cells
\* with values absent from the cell's row, column and box.
C19_ValidThroughout ==
    /\ [](LoadedValid => IsValid(grid))
    /\ [][(pc = "solving" /\ LoadedValid /\ grid' # grid) => PlacesOnlyFresh]_vars

\* a valid puzzle solved by techniques first and by backtracking for the rest
C19_Witness ==
    /\ LoadedValid
    /\ outcome = "returned"
    /\ Len(techniques_used) >= 1
    /\ NumEmpty(puzzle) > Len(techniques_used)
    /\ NumEmpty(grid) = 0

\* C20: after load_puzzle of a 9x9 matrix, in every state of
\* solve_with_techniques and get_hint and after them (a return, the
\* unsolvable error), every cell that was non-zero at load holds the loaded
\* value in the grid and in its record and has is_given set, and no cell that
\* was empty at load has is_given set.
C20_GivensImmutable ==
    Shape9(puzzle) =>
        \A q \in Pos :
            IF At(puzzle, q[1], q[2]) # 0
            THEN /\ At(grid, q[1], q[2]) = At(puzzle, q[1], q[2])
                 /\ cells[q].value = At(puzzle, q[1], q[2])
                 /\ cells[q].is_given
            ELSE ~cells[q].is_given

\* a puzzle with givens whose empty cells were filled by techniques and by
\* backtracking
C20_Witness ==
    /\ Shape9(puzzle)
    /\ outcome = "returned"
    /\ NumEmpty(puzzle) \in 1 .. N * N - 1
    /\ Len(techniques_used) >= 1
    /\ NumEmpty(puzzle) > Len(techniques_used)
    /\ NumEmpty(grid) = 0
    /\ \E q \in Pos : cells[q].is_given

\* every cell filled since load_puzzle was filled by a technique of this call
FilledByThisCall ==
    /\ Shape9(puzzle)
    /\ NumEmpty(puzzle) - NumEmpty(grid) = Len(techniques_used)

\* cell q of g holds the loaded value or the value of an applied technique
GivenOrApplied(g, q) ==
    \/ At(g, q[1], q[2]) = At(puzzle, q[1], q[2])
    \/ /\ At(puzzle, q[1], q[2]) = 0
       /\ \E i \in 1 .. Len(techniques_used) :
              /\ techniques_used[i].cells_affected = <<q>>
              /\ techniques_used[i].value = At(g, q[1], q[2])

\* C21: at the step of solve_with_techniques that raises the unsolvable
\* error, the grid after the failed backtracking is cell for cell the grid on
\* which technique detection stopped, and (every fill since load being a
\* technique of this call) each cell holds its loaded value or the value an
\* applied technique gave it: no value of the search is left.
C21_FailedSearchRestores ==
    [][(pc = "solving" /\ outcome' = "ValueError") =>
          /\ grid' = grid
          /\ FilledByThisCall => \A q \in Pos : GivenOrApplied(grid', q)
      ]_vars

\* the unsolvable error raised after applied techniques and a search that
\* had placed values: the first empty cell has a value that is safe there
C21_Witness ==
    /\ outcome = "ValueError"
    /\ Len(techniques_used) >= 1
    /\ FilledByThisCall
    /\ NextEmpty(grid) < N * N
    /\ NextSafe(grid, NextEmpty(grid) \div N, NextEmpty(grid) % N, 1) <= N

\* C22: after load_puzzle and after every completed solve_with_techniques
\* and get_hint, every cell record holds the grid's value, and the record of
\* a filled cell has no candidate, the cells filled by the backtracking
\* fallback included.
C22_CellsInStep ==
    (pc = "idle" /\ Shape9(grid) /\ outcome \in {"loaded", "returned", "hint"}) =>
        \A q \in Pos :
            /\ cells[q].value = At(grid, q[1], q[2])
            /\ At(grid, q[1], q[2]) # 0 => cells[q].candidates = {}

====
